---- MODULE Spec2Model ----
(***************************************************************************)
(* Verification model of VibeVoice-FastAPI.                                *)
(*                                                                         *)
(* Two programs of the repository are modelled:                            *)
(*   - the standalone core (standalone/vibevoice_core.py) as it is driven  *)
(*     by standalone/fastapi_server.py (coroutines on one event loop) and  *)
(*     by standalone/gradio_app.py (handler functions on worker threads);  *)
(*   - the API service (api/services/tts_service.py) with its streaming    *)
(*     pipeline (api/utils/streaming.py, api/routers/vibevoice.py).        *)
(***************************************************************************)
EXTENDS Integers, Sequences, FiniteSets, TLC

(***************************************************************************)
(* Bounds of the model.                                                    *)
(***************************************************************************)
MaxRequests == 2
RngMod == 3

(***************************************************************************)
(* Values.                                                                 *)
(***************************************************************************)
None == "None"

\* A model instance built by from_pretrained: an identity and the
\* configuration it was constructed with. NoInstance stands for Python None.
NoInstance == [id |-> 0, cfg |-> <<"-", "-", "-">>]

Handlers == {"h1", "h2"}

\* The configurations requests ask for: a base configuration and one
\* variation of each field that load_model compares.
RequestConfigs ==
    { <<"VibeVoice-Large", "auto", "full precision">>,
      <<"VibeVoice-1.5B", "auto", "full precision">>,
      <<"VibeVoice-Large", "sdpa", "full precision">>,
      <<"VibeVoice-Large", "auto", "4bit">> }

Seeds == {1}
DiffusionSteps == {10}

\* Texts are sequences of symbols: one-character strings, and the pause
\* markers, which the pattern of _parse_pause_keywords matches as a whole.
Whitespace == {" ", "\n"}
Terminal == {".", "!", "?"}
Upper == {"A", "B", "H", "W"}
Separators == {",", ";"}

\* segments as _parse_pause_keywords returns them: ('text', str), ('pause', int)
TextUnit(t) == [type |-> "text", text |-> t, ms |-> 0]
PauseUnit(d) == [type |-> "pause", text |-> <<>>, ms |-> d]

\* "Hello.\n[pause:200]\nWorld.", each word shortened to its first letter
HelloWorld == <<"H", ".", "\n", "[pause:200]", "\n", "W", ".">>
Scripts == { HelloWorld }

\* max_words_per_chunk of generate_speech
DefaultMaxWords == 250

Requests ==
    [cfg : RequestConfigs, free_memory : BOOLEAN, voice_file : BOOLEAN,
     seed : Seeds, diffusion_steps : DiffusionSteps, script : Scripts,
     max_words_per_chunk : {DefaultMaxWords}]

NoRequest ==
    [cfg |-> <<"-", "-", "-">>, free_memory |-> FALSE, voice_file |-> FALSE,
     seed |-> 0, diffusion_steps |-> 0, script |-> <<>>,
     max_words_per_chunk |-> 0]

VARIABLES
    mode,                   \* "asyncio" (fastapi_server) or "threads" (gradio_app)
    loop,                   \* the handler that holds the event loop thread, or None
    model,                  \* VibeVoiceCore.model
    processor,              \* VibeVoiceCore.processor
    current_model,          \* VibeVoiceCore.current_model
    current_attention_type, \* VibeVoiceCore.current_attention_type
    current_quantize_llm,   \* VibeVoiceCore.current_quantize_llm
    current_lora_path,      \* VibeVoiceCore.current_lora_path
    np_rng,                 \* state of numpy's global generator
    torch_rng,              \* state of torch's global generator
    nextId,                 \* identities handed out to constructed instances
    served,                 \* requests accepted so far
    pc,                     \* position of each handler
    req,                    \* the request each handler serves
    pending,                \* instance returned by from_pretrained, not yet assigned
    inUse,                  \* instance whose generate() the handler is executing
    voice,                  \* voice_samples the handler passes to the engine
    unit,                   \* index of the next unit of the script
    units,                  \* the segments and chunks generate_speech walks through
    engine_calls,           \* the texts the call has submitted to the engine
    audio,                  \* all_audio_segments of the running generate_speech
    result,                 \* what the handler returned
    raised,                 \* the exception the handler's call raised, or None
    status,                 \* HTTP status of the handler's response, 0: none
    loadBranch,             \* history: the branch the handler's load_model took
    frees,                  \* history: free_memory calls since a model was last assigned
    \* ---- the API service (api/) ----
    api_loop,               \* the request that holds the event loop thread, or None
    ddpm_steps,             \* the model's diffusion steps (set_ddpm_inference_steps)
    seed_rng,               \* state of the global generators (set_seed)
    apc,                    \* position of each API request
    areq,                   \* the parameters of each API request
    worker,                 \* state of the request's generation thread
    engineArgs,             \* steps and generator state a batch engine call started with
    raced,                  \* another generate call overlapped this one
    produced,               \* chunks the engine has put on the streamer
    audio_queue,            \* AudioStreamer.audio_queues[0] of the request
    yielded,                \* chunks the consumer has passed to the transport
    batchAudio,             \* the array a batch call returned
    atCall,                 \* history: steps and generator state when generate_speech returned
    droppedAt,              \* history: chunks produced when the consumer was closed
    \* ---- the text functions of VibeVoiceCore ----
    text,                   \* the text argument
    max_words,              \* the max_words argument
    segments,               \* what _parse_pause_keywords returned
    chunks,                 \* what _split_text_into_chunks returned
    tpc,                    \* "input", then "returned"
    \* ---- sse_audio_generator (api/utils/streaming.py) ----
    audio_stream,           \* what the source iterator has yet to give
    chunk_id,               \* chunk_id of the generator
    events,                 \* the events yielded to the transport
    consumed,               \* history: the chunks taken from the source
    spc,                    \* position of the generator
    client_pos,             \* events the demo client has read
    out_file,               \* what the demo client wrote to its file
    cpc,                    \* position of the demo client
    \* ---- Settings (api/config.py) and the host ----
    vibevoice_device,       \* Settings.vibevoice_device
    vibevoice_dtype,        \* Settings.vibevoice_dtype, <<>> for None
    vibevoice_attn_implementation, \* the setting, <<>> for None
    cuda_available,         \* torch.cuda.is_available()
    mps_available,          \* torch.backends.mps.is_available()
    flash_attn_installed,   \* "import flash_attn" succeeds
    device,                 \* TTSService.device
    dtype,                  \* TTSService.dtype
    attn_implementation,    \* attn_implementation of TTSService.load_model
    lpc,                    \* position of TTSService.load_model
    failing_attn,           \* the implementations from_pretrained fails with on the host
    tts_processor,          \* TTSService.processor
    tts_model,              \* TTSService.model: <<>> for None, else <<implementation>>
    model_loaded,           \* TTSService._model_loaded
    attempts,               \* history: the implementations from_pretrained was called with
    load_raised,            \* the exception load_model raised, or None
    \* ---- audio_to_bytes (api/utils/audio_utils.py), pcm format ----
    audio_chunks,           \* the audio chunks of a generation, samples in 1/SampleUnit
    encoded,                \* chunks audio_chunk_generator has encoded
    stream_bytes,           \* the byte chunks audio_chunk_generator has yielded
    whole_bytes,            \* audio_to_bytes of the whole audio, <<>> before the call
    conversions,            \* history: every convert_to_16_bit_wav call, before and after the cast
    kpc                     \* "idle", "encoding"

coreVars ==
    <<mode, loop, model, processor, current_model, current_attention_type,
      current_quantize_llm, current_lora_path, np_rng, torch_rng, nextId,
      served, pc, req, pending, inUse, voice, unit, audio, result,
      loadBranch, units, engine_calls, raised, status, frees>>

handleVars ==
    <<model, processor, current_model, current_attention_type,
      current_quantize_llm, current_lora_path, frees>>

apiVars ==
    <<api_loop, ddpm_steps, seed_rng, apc, areq, worker, engineArgs, raced,
      produced, audio_queue, yielded, batchAudio, atCall, droppedAt>>

textVars == <<text, max_words, segments, chunks, tpc>>

sseVars ==
    <<audio_stream, chunk_id, events, consumed, spc, client_pos, out_file,
      cpc>>

settingsVars ==
    <<vibevoice_device, vibevoice_dtype, vibevoice_attn_implementation,
      cuda_available, mps_available, flash_attn_installed, device, dtype,
      attn_implementation, lpc, failing_attn, tts_processor, tts_model,
      model_loaded, attempts, load_raised>>

pcmVars ==
    <<audio_chunks, encoded, stream_bytes, whole_bytes, conversions, kpc>>

\* the variables of the function-level specifications
fnVars == <<textVars, sseVars, settingsVars, pcmVars>>

vars == <<coreVars, apiVars, fnVars>>

(***************************************************************************)
(* Random number generators: seeding puts the generator in the state of    *)
(* the seed, every draw advances it.                                       *)
(***************************************************************************)
SeedState(seed) == seed % RngMod
Advance(s, n) == (s + n) % RngMod
NextRng(s) == Advance(s, 1)

(***************************************************************************)
(* Strings, as Python computes on them.                                    *)
(***************************************************************************)
\* the length of the longest prefix of s made of symbols of set
RECURSIVE SpanIn(_, _)
SpanIn(s, set) ==
    IF s # <<>> /\ Head(s) \in set THEN 1 + SpanIn(Tail(s), set) ELSE 0

\* the length of the longest prefix of s with no symbol of set
RECURSIVE SpanNotIn(_, _)
SpanNotIn(s, set) ==
    IF s # <<>> /\ Head(s) \notin set THEN 1 + SpanNotIn(Tail(s), set) ELSE 0

From(s, i) == SubSeq(s, i, Len(s))

lstrip(s) == From(s, SpanIn(s, Whitespace) + 1)

RECURSIVE rstrip(_)
rstrip(s) ==
    IF s # <<>> /\ s[Len(s)] \in Whitespace
    THEN rstrip(SubSeq(s, 1, Len(s) - 1))
    ELSE s

\* str.strip()
strip(s) == rstrip(lstrip(s))

\* str.split(): the runs of symbols between whitespace
RECURSIVE split(_)
split(s) ==
    LET t == lstrip(s)
        n == SpanNotIn(t, Whitespace)
    IN  IF t = <<>> THEN <<>>
        ELSE <<SubSeq(t, 1, n)>> \o split(From(t, n + 1))

\* str.split(sep) and re.split(r'[,;]', s): s is cut at every symbol of seps
RECURSIVE SplitAt(_, _)
SplitAt(s, seps) ==
    LET n == SpanNotIn(s, seps)
    IN  IF n = Len(s) THEN <<s>>
        ELSE <<SubSeq(s, 1, n)>> \o SplitAt(From(s, n + 2), seps)

\* text.replace('. ', '.|')
RECURSIVE ReplaceDotSpace(_)
ReplaceDotSpace(s) ==
    IF Len(s) < 2 THEN s
    ELSE IF s[1] = "." /\ s[2] = " "
         THEN <<".", "|">> \o ReplaceDotSpace(From(s, 3))
         ELSE <<s[1]>> \o ReplaceDotSpace(Tail(s))

\* ' '.join(parts)
RECURSIVE join(_)
join(parts) ==
    IF parts = <<>> THEN <<>>
    ELSE IF Len(parts) = 1 THEN parts[1]
         ELSE parts[1] \o <<" ">> \o join(Tail(parts))

NotEmpty(s) == s # <<>>

\* [s.strip() for s in parts if s.strip()]
StripAll(parts) ==
    SelectSeq([i \in 1 .. Len(parts) |-> strip(parts[i])], NotEmpty)

(***************************************************************************)
(* VibeVoiceCore._parse_pause_keywords                                     *)
(***************************************************************************)
\* the texts the pattern r'\[pause(?::(\d+))?\]' matches
PauseMarkers == {"[pause]", "[pause:200]", "[pause:0]"}

\* match.group(1): the digits of the marker as a number, <<>> without digits
MarkerGroup(m) ==
    CASE m = "[pause:200]" -> <<200>>
      [] m = "[pause:0]" -> <<0>>
      [] OTHER -> <<>>

DefaultPauseMs == 1000

\* "duration_ms = int(match.group(1)) if match.group(1) else 1000"
MarkerDuration(m) ==
    IF MarkerGroup(m) # <<>> THEN MarkerGroup(m)[1] ELSE DefaultPauseMs

\* A marker can also be written symbol by symbol: the opening "[pause", a
\* colon, digits, the closing bracket.
Digits == {"0", "5"}

\* int(match.group(1)) of a run of digits
RECURSIVE DigitsValue(_)
DigitsValue(ds) ==
    IF ds = <<>> THEN 0
    ELSE 10 * DigitsValue(SubSeq(ds, 1, Len(ds) - 1))
         + (IF ds[Len(ds)] = "5" THEN 5 ELSE 0)

\* a pattern that takes the digits as optional
MatchEnd_digits_optional(t, i) ==
    IF t[i] \in PauseMarkers THEN i
    ELSE IF t[i] # "[pause" \/ i = Len(t) THEN 0
    ELSE IF t[i + 1] = "]" THEN i + 1
    ELSE IF t[i + 1] # ":" THEN 0
    ELSE LET d == SpanIn(From(t, i + 2), Digits)
         IN  IF i + 2 + d <= Len(t) /\ t[i + 2 + d] = "]"
             THEN i + 2 + d ELSE 0

\* The pattern r'\[pause(?::(\d+))?\]' tried at position i: the position of
\* the last symbol of the match, 0 when there is no match at i.
MatchEnd(t, i) ==
    IF t[i] \in PauseMarkers THEN i
    ELSE IF t[i] # "[pause" \/ i = Len(t) THEN 0
    ELSE IF t[i + 1] = "]" THEN i + 1
    ELSE IF t[i + 1] # ":" THEN 0
    ELSE LET d == SpanIn(From(t, i + 2), Digits)
         IN  IF d >= 1 /\ i + 2 + d <= Len(t) /\ t[i + 2 + d] = "]"
             THEN i + 2 + d ELSE 0

\* duration_ms of the match at position i
MatchDuration(t, i) ==
    IF t[i] \in PauseMarkers THEN MarkerDuration(t[i])
    ELSE IF t[i + 1] = "]" THEN DefaultPauseMs
    ELSE DigitsValue(SubSeq(t, i + 2, MatchEnd(t, i) - 1))

\* the loop over re.finditer and what follows it: i is the position the scan
\* has reached, last_end the end of the last match, segs the segments so far
RECURSIVE ParseScan(_, _, _, _)
ParseScan(t, i, last_end, segs) ==
    IF i > Len(t)
    THEN LET remaining_text == strip(From(t, last_end + 1))
             all == IF last_end < Len(t) /\ remaining_text # <<>>
                    THEN Append(segs, TextUnit(remaining_text))
                    ELSE segs
         IN  IF all = <<>> THEN <<TextUnit(t)>> ELSE all
    ELSE IF MatchEnd(t, i) > 0
         THEN LET text_segment == strip(SubSeq(t, last_end + 1, i - 1))
                  before == IF i - 1 > last_end /\ text_segment # <<>>
                            THEN Append(segs, TextUnit(text_segment))
                            ELSE segs
              IN  ParseScan(t, MatchEnd(t, i) + 1, MatchEnd(t, i),
                            Append(before, PauseUnit(MatchDuration(t, i))))
         ELSE ParseScan(t, i + 1, last_end, segs)

parse_pause_keywords(t) == ParseScan(t, 1, 0, <<>>)

(***************************************************************************)
(* VibeVoiceCore._split_text_into_chunks                                   *)
(***************************************************************************)
\* a match of r'(?<=[.!?])\s+(?=[A-Z])' starts after position i of s
SentenceBoundary(s, i) ==
    /\ s[i] \in Terminal
    /\ LET k == SpanIn(From(s, i + 1), Whitespace)
       IN  /\ k > 0
           /\ i + k < Len(s)
           /\ s[i + k + 1] \in Upper

\* re.split(sentence_pattern, s)
RECURSIVE SentenceSplit(_)
SentenceSplit(s) ==
    LET B == {i \in 1 .. Len(s) : SentenceBoundary(s, i)}
    IN  IF B = {} THEN <<s>>
        ELSE LET i == CHOOSE b \in B : \A c \in B : b <= c
                 k == SpanIn(From(s, i + 1), Whitespace)
             IN  <<SubSeq(s, 1, i)>> \o SentenceSplit(From(s, i + k + 1))

\* the sentences, with the fall-back to a split on '. '
Sentences(t, w) ==
    LET sentences == SentenceSplit(t)
    IN  IF Len(sentences) = 1 /\ Len(split(t)) > w
        THEN StripAll(SplitAt(ReplaceDotSpace(t), {"|"}))
        ELSE sentences

\* the pieces the loop packs, in order: each sentence, or the parts between
\* its commas and semicolons when the sentence has more than w words
RECURSIVE Pieces(_, _)
Pieces(sentences, w) ==
    IF sentences = <<>> THEN <<>>
    ELSE LET sentence == strip(Head(sentences))
             rest == Pieces(Tail(sentences), w)
         IN  IF sentence = <<>> THEN rest
             ELSE IF Len(split(sentence)) > w
                  THEN StripAll(SplitAt(sentence, Separators)) \o rest
                  ELSE <<sentence>> \o rest

\* the packing of the pieces into chunks
RECURSIVE Pack(_, _, _, _, _)
Pack(pieces, w, packed, current_chunk, current_word_count) ==
    IF pieces = <<>>
    THEN IF current_chunk # <<>>
         THEN Append(packed, join(current_chunk))
         ELSE packed
    ELSE LET piece == Head(pieces)
             n == Len(split(piece))
         IN  IF current_word_count + n > w /\ current_chunk # <<>>
             THEN Pack(Tail(pieces), w, Append(packed, join(current_chunk)),
                       <<piece>>, n)
             ELSE Pack(Tail(pieces), w, packed, Append(current_chunk, piece),
                       current_word_count + n)

split_text_into_chunks(t, w) ==
    LET packed == Pack(Pieces(Sentences(t, w), w), w, <<>>, <<>>, 0)
    IN  IF packed = <<>> THEN <<t>> ELSE packed

(***************************************************************************)
(* Scheduling. fastapi_server runs its handlers as coroutines on one       *)
(* thread: a handler runs alone from one await to the next. gradio_app     *)
(* runs each handler function on its own worker thread.                    *)
(***************************************************************************)
CanRun(h) == mode = "threads" \/ loop = h
CanEnter == mode = "threads" \/ loop = None
Enter(h) == IF mode = "asyncio" THEN h ELSE None

(***************************************************************************)
(* VibeVoiceCore.free_memory                                               *)
(***************************************************************************)
\* free_memory calls are counted up to MaxFrees
MaxFrees == 2

\* a free_memory that leaves the recorded quantization in place
free_memory_keeps_quantization ==
    /\ frees' = IF frees < MaxFrees THEN frees + 1 ELSE frees
    /\ model' = NoInstance
    /\ processor' = None
    /\ current_model' = None
    /\ UNCHANGED <<current_attention_type, current_quantize_llm,
                   current_lora_path>>

free_memory ==
    /\ frees' = IF frees < MaxFrees THEN frees + 1 ELSE frees
    /\ model' = NoInstance
    /\ processor' = None
    /\ current_model' = None
    /\ current_quantize_llm' = "full precision"
    /\ UNCHANGED <<current_attention_type, current_lora_path>>

(***************************************************************************)
(* VibeVoiceCore.load_model                                                *)
(***************************************************************************)
\* a load_model that rebuilds the handle on every call
NeedsReload_always(model_name, attention_type, quantize_llm, lora_path) ==
    TRUE

\* "Check if we need to reload"
NeedsReload(model_name, attention_type, quantize_llm, lora_path) ==
    \/ model = NoInstance
    \/ current_model # model_name
    \/ current_attention_type # attention_type
    \/ current_quantize_llm # quantize_llm
    \/ current_lora_path # lora_path

\* a load_model that constructs the new model over the old one
load_model_release_skipped == UNCHANGED handleVars

\* "if self.model is not None: self.free_memory()"
load_model_release ==
    IF model # NoInstance THEN free_memory ELSE UNCHANGED handleVars

VoiceFile == [kind |-> "file", noise |-> 0]
NoVoice == [kind |-> "none", noise |-> 0]

\* VibeVoiceCore._create_synthetic_voice_sample: a deterministic waveform
\* plus 0.02 * np.random.normal(...), drawn from numpy's global generator.
create_synthetic_voice_sample(rng) == [kind |-> "synthetic", noise |-> rng]

\* VibeVoiceCore._generate_silence
SampleRate == 24000

\* a silence of whole seconds only
generate_silence_whole_seconds(duration_ms) ==
    [kind |-> "silence", samples |-> SampleRate * (duration_ms \div 1000)]

generate_silence(duration_ms) ==
    [kind |-> "silence", samples |-> (SampleRate * duration_ms) \div 1000]

\* The inference engine, deterministic: its waveform is a function of the
\* text, the voice samples, the generator state at the call, the diffusion
\* steps and the configuration of the instance it runs on.
Engine(chunk_text, voice_samples, rng, steps, cfg) ==
    [kind |-> "speech", text |-> chunk_text, voice |-> voice_samples,
     rng |-> rng, steps |-> steps, cfg |-> cfg]

SetPc(h, p) == pc' = [pc EXCEPT ![h] = p]
Release(h) == loop' = IF loop = h THEN None ELSE loop

\* the messages of the exceptions VibeVoiceCore raises
ModelNotFound == "Model not found"
ModelLoadingFailed == "Model loading failed"
ModelNotLoaded == "Model not loaded. Call load_model() first."
EngineFailed == "VibeVoice failed to generate audio"
NoAudio == "No audio segments generated"
NoneTypeError == "'NoneType' object has no attribute"
QuantizationNeedsCuda ==
    "Model loading failed: LLM quantization requires a CUDA GPU"

\* the status codes of fastapi_server's responses
BadRequest == 400
InternalError == 500
Ok == 200

\* gradio_app returns values where fastapi_server answers with a status
Response(code) == IF mode = "asyncio" THEN code ELSE 0

\* "not request.text or not request.text.strip()"
IsBlank(t) == t = <<>> \/ strip(t) = <<>>

\* str(HTTPException(status_code=400, detail="Text is required"))
TextRequired == "400: Text is required"

\* /tts/single: "except Exception as e: raise HTTPException(status_code=500,
\* detail=str(e))" is the only except clause, and HTTPException is an
\* Exception: the status of the exception caught is replaced
except_single(status_code) == InternalError

\* The call raises e: the handler's except clause ends the request with an
\* error response, no audio is returned.
Fail(h, e) ==
    /\ SetPc(h, "error")
    /\ Release(h)
    /\ result' = [result EXCEPT ![h] = <<>>]
    /\ raised' = [raised EXCEPT ![h] = e]
    /\ status' = [status EXCEPT ![h] = Response(InternalError)]

\* the directories under models_dir
AvailableModels == {"VibeVoice-Large", "VibeVoice-1.5B"}

(***************************************************************************)
(* Request handlers: generate_single_speaker / generate_multi_speaker of   *)
(* fastapi_server.py and gradio_app.py.                                    *)
(***************************************************************************)
\* The handler up to its first call of the core: the request is validated,
\* and a request without text is answered at once.
StartRequest(h, r) ==
    /\ pc[h] \in {"idle", "done", "error"}
    /\ served < MaxRequests
    /\ CanEnter
    /\ served' = served + 1
    /\ req' = [req EXCEPT ![h] = r]
    /\ IF IsBlank(r.script)
       THEN /\ loop' = loop
            /\ raised' = [raised EXCEPT ![h] =
                    IF mode = "asyncio" THEN TextRequired ELSE None]
            /\ status' = [status EXCEPT ![h] =
                    Response(except_single(BadRequest))]
            /\ result' = [result EXCEPT ![h] = <<>>]
            /\ SetPc(h, "error")
       ELSE /\ loop' = Enter(h)
            /\ raised' = [raised EXCEPT ![h] = None]
            /\ status' = [status EXCEPT ![h] = 0]
            /\ result' = result
            /\ SetPc(h, "load")
    /\ UNCHANGED <<loadBranch, mode, handleVars, np_rng, torch_rng, nextId,
                   pending, inUse, voice, unit, audio, units, engine_calls>>
    /\ UNCHANGED <<apiVars, fnVars>>

\* load_model up to the decision to reload, with the release of the old handle
LoadCheck(h) ==
    /\ pc[h] = "load"
    /\ CanRun(h)
    /\ IF req[h].cfg[1] \notin AvailableModels
       THEN /\ Fail(h, ModelNotFound)
            /\ UNCHANGED handleVars
       ELSE /\ IF NeedsReload(req[h].cfg[1], req[h].cfg[2], req[h].cfg[3], None)
               THEN load_model_release /\ SetPc(h, "construct")
               ELSE UNCHANGED handleVars /\ SetPc(h, "voice")
            /\ UNCHANGED <<loop, result, raised, status>>
    /\ loadBranch' = [loadBranch EXCEPT ![h] =
            IF req[h].cfg[1] \notin AvailableModels THEN "missing"
            ELSE IF model = NoInstance THEN "load"
            ELSE IF <<current_model, current_attention_type,
                      current_quantize_llm>> = req[h].cfg
                 THEN "same" ELSE "differs"]
    /\ UNCHANGED <<mode, np_rng, torch_rng, nextId, served, req, pending,
                   inUse, voice, unit, audio, units, engine_calls>>
    /\ UNCHANGED <<apiVars, fnVars>>

\* load_model: quantization set-up and from_pretrained, which may raise
LoadConstruct(h) ==
    /\ pc[h] = "construct"
    /\ CanRun(h)
    /\ IF req[h].cfg[3] \in {"4bit", "8bit"} /\ ~cuda_available
       THEN /\ Fail(h, QuantizationNeedsCuda)
            /\ UNCHANGED <<pending, nextId>>
       ELSE \E ok \in BOOLEAN :
        IF ok
        THEN /\ pending' = [pending EXCEPT
                    ![h] = [id |-> nextId, cfg |-> req[h].cfg]]
             /\ nextId' = nextId + 1
             /\ SetPc(h, "assign")
             /\ UNCHANGED <<loop, result, raised, status>>
        ELSE /\ Fail(h, ModelLoadingFailed)
             /\ UNCHANGED <<pending, nextId>>
    /\ UNCHANGED <<loadBranch, mode, handleVars, np_rng, torch_rng, served,
                   req, inUse, voice, unit, audio, units, engine_calls>>
    /\ UNCHANGED <<apiVars, fnVars>>

\* load_model: self.model = ..., the processor, and the record of the
\* configuration; a missing tokenizer or a failing processor raises after the
\* model was assigned
LoadAssign(h) ==
    /\ pc[h] = "assign"
    /\ CanRun(h)
    /\ model' = pending[h]
    /\ frees' = 0
    /\ pending' = [pending EXCEPT ![h] = NoInstance]
    /\ \E ok \in BOOLEAN :
        IF ok
        THEN /\ processor' = req[h].cfg[1]
             /\ current_model' = req[h].cfg[1]
             /\ current_attention_type' = req[h].cfg[2]
             /\ current_quantize_llm' = req[h].cfg[3]
             /\ current_lora_path' = None
             /\ SetPc(h, "voice")
             /\ UNCHANGED <<loop, result, raised, status>>
        ELSE /\ Fail(h, ModelLoadingFailed)
             /\ UNCHANGED <<processor, current_model, current_attention_type,
                            current_quantize_llm, current_lora_path>>
    /\ UNCHANGED <<loadBranch, mode, np_rng, torch_rng, nextId, served, req,
                   inUse, voice, unit, audio, units, engine_calls>>
    /\ UNCHANGED <<apiVars, fnVars>>

\* fastapi_server: "content = await voice_file.read()" suspends the handler
AwaitRead(h) ==
    /\ pc[h] = "voice"
    /\ mode = "asyncio"
    /\ req[h].voice_file
    /\ CanRun(h)
    /\ SetPc(h, "reading")
    /\ loop' = None
    /\ UNCHANGED <<loadBranch, mode, handleVars, np_rng, torch_rng, nextId,
                   served, req, pending, inUse, voice, unit, audio, result,
                   units, engine_calls, raised,
                   status>>
    /\ UNCHANGED <<apiVars, fnVars>>

\* the handler is resumed and prepares the uploaded voice sample
ResumeRead(h) ==
    /\ pc[h] = "reading"
    /\ loop = None
    /\ loop' = h
    /\ voice' = [voice EXCEPT ![h] = VoiceFile]
    /\ SetPc(h, "generate")
    /\ UNCHANGED <<loadBranch, mode, handleVars, np_rng, torch_rng, nextId,
                   served, req, pending, inUse, unit, audio, result, units,
                   engine_calls, raised,
                   status>>
    /\ UNCHANGED <<apiVars, fnVars>>

\* no upload (voice_samples = None), or gradio_app, which gets a file path
PrepareVoice(h) ==
    /\ pc[h] = "voice"
    /\ CanRun(h)
    /\ ~(mode = "asyncio" /\ req[h].voice_file)
    /\ voice' = [voice EXCEPT
                    ![h] = IF req[h].voice_file THEN VoiceFile ELSE NoVoice]
    /\ SetPc(h, "generate")
    /\ UNCHANGED <<loadBranch, mode, loop, handleVars, np_rng, torch_rng,
                   nextId, served, req, pending, inUse, unit, audio, result,
                   units, engine_calls, raised,
                   status>>
    /\ UNCHANGED <<apiVars, fnVars>>

(***************************************************************************)
(* VibeVoiceCore.generate_speech                                           *)
(***************************************************************************)
\* "if seg_type == 'pause'"
IsPause_never(u) == FALSE

IsPause(u) == u.type = "pause"

\* The units of work of the loops of generate_speech, in the order the loops
\* reach them: a pause segment, a text segment of at most
\* max_words_per_chunk words as a single chunk, and each chunk of a longer
\* text segment.
RECURSIVE Units(_, _)
Units(segs, max_words_per_chunk) ==
    IF segs = <<>> THEN <<>>
    ELSE LET seg == Head(segs)
             rest == Units(Tail(segs), max_words_per_chunk)
             text_chunks ==
                 split_text_into_chunks(seg.text, max_words_per_chunk)
         IN  IF seg.type = "pause" THEN <<seg>> \o rest
             ELSE IF Len(split(seg.text)) > max_words_per_chunk
                  THEN [i \in 1 .. Len(text_chunks) |->
                            TextUnit(text_chunks[i])] \o rest
                  ELSE <<seg>> \o rest

\* "if self.model is None or self.processor is None: raise", then
\* "segments = self._parse_pause_keywords(text)" and
\* "if voice_samples is None: voice_samples = [synthetic ...]"
GenStart(h) ==
    /\ pc[h] = "generate"
    /\ CanRun(h)
    /\ IF model = NoInstance \/ processor = None
       THEN /\ Fail(h, ModelNotLoaded)
            /\ UNCHANGED <<voice, np_rng, unit, audio, units, engine_calls>>
       ELSE /\ units' = [units EXCEPT
                    ![h] = Units(parse_pause_keywords(req[h].script),
                                 req[h].max_words_per_chunk)]
            /\ IF voice[h] = NoVoice
               THEN /\ voice' = [voice EXCEPT
                          ![h] = create_synthetic_voice_sample(np_rng)]
                    /\ np_rng' = NextRng(np_rng)
               ELSE UNCHANGED <<voice, np_rng>>
            /\ unit' = [unit EXCEPT ![h] = 1]
            /\ audio' = [audio EXCEPT ![h] = <<>>]
            /\ engine_calls' = [engine_calls EXCEPT ![h] = <<>>]
            /\ SetPc(h, "units")
            /\ UNCHANGED <<loop, result, raised, status>>
    /\ UNCHANGED <<loadBranch, mode, handleVars, torch_rng, nextId, served,
                   req, pending, inUse>>
    /\ UNCHANGED <<apiVars, fnVars>>

\* a pause segment: silence is appended, the engine is not called
GenPause(h) ==
    /\ pc[h] = "units"
    /\ CanRun(h)
    /\ unit[h] <= Len(units[h])
    /\ IsPause(units[h][unit[h]])
    /\ audio' = [audio EXCEPT
            ![h] = Append(@, generate_silence(units[h][unit[h]].ms))]
    /\ unit' = [unit EXCEPT ![h] = @ + 1]
    /\ UNCHANGED <<loadBranch, mode, loop, handleVars, np_rng, torch_rng,
                   nextId, served, pc, req, pending, inUse, voice, result,
                   units, engine_calls, raised,
                   status>>
    /\ UNCHANGED <<apiVars, fnVars>>

\* _generate_chunk up to the call of self.model.generate: the seeds are set,
\* then self.model and self.processor are used
ChunkBegin(h) ==
    /\ pc[h] = "units"
    /\ CanRun(h)
    /\ unit[h] <= Len(units[h])
    /\ ~IsPause(units[h][unit[h]])
    /\ torch_rng' = SeedState(req[h].seed)
    /\ np_rng' = SeedState(req[h].seed)
    /\ IF model = NoInstance \/ processor = None
       THEN /\ Fail(h, NoneTypeError)
            /\ UNCHANGED <<inUse, engine_calls>>
       ELSE /\ inUse' = [inUse EXCEPT ![h] = model]
            /\ engine_calls' = [engine_calls EXCEPT
                    ![h] = Append(@, units[h][unit[h]].text)]
            /\ SetPc(h, "engine")
            /\ UNCHANGED <<loop, result, raised, status>>
    /\ UNCHANGED <<loadBranch, mode, handleVars, nextId, served, req,
                   pending, voice, unit, audio, units>>
    /\ UNCHANGED <<apiVars, fnVars>>

\* a generate_speech that logs the failure of a chunk and goes on
generate_chunk_logged(h) ==
    /\ raised' = [raised EXCEPT ![h] = EngineFailed]
    /\ unit' = [unit EXCEPT ![h] = @ + 1]
    /\ SetPc(h, "units")
    /\ UNCHANGED <<audio, torch_rng, loop, result, status>>

\* self.model.generate raises, or returns no speech_outputs and
\* _generate_chunk raises: generate_speech has no except clause
generate_chunk_raises(h) ==
    /\ Fail(h, EngineFailed)
    /\ UNCHANGED <<audio, torch_rng, unit>>

\* self.model.generate returns: the chunk's waveform is appended
ChunkEnd(h) ==
    /\ pc[h] = "engine"
    /\ CanRun(h)
    /\ inUse' = [inUse EXCEPT ![h] = NoInstance]
    /\ \E ok \in BOOLEAN :
        IF ok
        THEN /\ audio' = [audio EXCEPT
                    ![h] = Append(@, Engine(units[h][unit[h]].text, voice[h],
                                            torch_rng, req[h].diffusion_steps,
                                            inUse[h].cfg))]
             /\ torch_rng' = NextRng(torch_rng)
             /\ unit' = [unit EXCEPT ![h] = @ + 1]
             /\ SetPc(h, "units")
             /\ UNCHANGED <<loop, result, raised, status>>
        ELSE generate_chunk_raises(h)
    /\ UNCHANGED <<loadBranch, mode, handleVars, np_rng, nextId, served, req,
                   pending, voice, units, engine_calls>>
    /\ UNCHANGED <<apiVars, fnVars>>

\* generate_speech returns the concatenation; the handler frees the memory
\* if the request asks for it and responds
GenFinish(h) ==
    /\ pc[h] = "units"
    /\ CanRun(h)
    /\ unit[h] > Len(units[h])
    /\ IF audio[h] = <<>>
       THEN /\ Fail(h, NoAudio)
            /\ UNCHANGED handleVars
       ELSE /\ result' = [result EXCEPT ![h] = audio[h]]
            /\ IF req[h].free_memory THEN free_memory ELSE UNCHANGED handleVars
            /\ SetPc(h, "done")
            /\ Release(h)
            /\ status' = [status EXCEPT ![h] = Response(Ok)]
            /\ UNCHANGED raised
    /\ UNCHANGED <<loadBranch, mode, np_rng, torch_rng, nextId, served, req,
                   pending, inUse, voice, unit, audio, units, engine_calls>>
    /\ UNCHANGED <<apiVars, fnVars>>

\* fastapi_server: POST /memory/free
FreeEndpoint ==
    /\ mode = "asyncio"
    /\ loop = None
    /\ free_memory
    /\ UNCHANGED <<loadBranch, mode, loop, np_rng, torch_rng, nextId, served,
                   pc, req, pending, inUse, voice, unit, audio, result, units,
                   engine_calls, raised,
                   status>>
    /\ UNCHANGED <<apiVars, fnVars>>

(***************************************************************************)
(* The API service: TTSService.generate_speech, its streaming generator    *)
(* and the response generators of api/utils/streaming.py.                  *)
(***************************************************************************)
ApiRequests == {"r1", "r2"}

\* chunks the engine emits for one generate call
MaxChunks == 3

\* settings.vibevoice_inference_steps
DefaultSteps == 10

\* Optional arguments: <<>> is None, <<v>> is the value v.
StepChoices == {<<>>, <<5>>}
SeedChoices == {<<>>, <<1>>}

ApiParams ==
    [stream : BOOLEAN, inference_steps : StepChoices, seed : SeedChoices]

NoParams == [stream |-> FALSE, inference_steps |-> <<>>, seed |-> <<>>]

\* One unit of engine output: chunk i of the waveform, which the
\* deterministic engine computes with the model's diffusion steps and the
\* generator state it finds when it samples the chunk. A call that
\* overlapped another call on the same model has no defined output.
AudioChunk(i, args, overlapped) ==
    [index |-> i, steps |-> args[1], rng |-> args[2], raced |-> overlapped]

\* the waveform of an engine call that runs alone from the state args
Waveform(args, overlapped) ==
    [i \in 1 .. MaxChunks |->
        AudioChunk(i, <<args[1], Advance(args[2], i - 1)>>, overlapped)]

\* AudioStreamer(batch_size=1, stop_signal=None, timeout=None)
StopSignal == [index |-> 0, steps |-> 0, rng |-> 0, raced |-> FALSE]

\* the requests whose model.generate call is executing
InEngine == {r \in ApiRequests : worker[r] = "running" \/ apc[r] = "batch"}

\* "if seed is not None: set_seed(seed)"
ApplySeed(q) == IF q.seed # <<>> THEN SeedState(q.seed[1]) ELSE seed_rng

\* "if inference_steps is not None: self.model.set_ddpm_inference_steps(...)"
ApplySteps(q) ==
    IF q.inference_steps # <<>> THEN q.inference_steps[1] ELSE ddpm_steps

\* the generate call of r starts: it overlaps every call still executing
EnterEngine(r) ==
    raced' = [x \in ApiRequests |->
                 raced[x] \/ ((x = r \/ x \in InEngine) /\ InEngine \ {r} # {})]

\* generate_speech(stream=True): seed and steps are set, the generator
\* object is returned; its body has not started
StreamCall(r, q) ==
    /\ apc[r] = "new"
    /\ api_loop = None
    /\ q.stream
    /\ areq' = [areq EXCEPT ![r] = q]
    /\ seed_rng' = ApplySeed(q)
    /\ ddpm_steps' = ApplySteps(q)
    /\ atCall' = [atCall EXCEPT ![r] = <<ApplySteps(q), ApplySeed(q)>>]
    /\ apc' = [apc EXCEPT ![r] = "response"]
    /\ UNCHANGED <<api_loop, worker, engineArgs, raced, produced, audio_queue,
                   yielded, batchAudio, droppedAt>>
    /\ UNCHANGED <<coreVars, fnVars>>

\* the response generator asks for the first chunk: _generate_streaming
\* creates the streamer, starts the generation thread and waits on the queue
StreamStart(r) ==
    /\ apc[r] = "response"
    /\ api_loop = None
    /\ api_loop' = r
    /\ worker' = [worker EXCEPT ![r] = "running"]
    /\ EnterEngine(r)
    /\ apc' = [apc EXCEPT ![r] = "waiting"]
    /\ UNCHANGED <<ddpm_steps, seed_rng, areq, engineArgs, produced,
                   audio_queue, yielded, batchAudio, atCall, droppedAt>>
    /\ UNCHANGED <<coreVars, fnVars>>

\* generate_speech(stream=False) up to the call of self.model.generate,
\* which runs on the event loop thread
BatchBegin(r, q) ==
    /\ apc[r] = "new"
    /\ api_loop = None
    /\ ~q.stream
    /\ api_loop' = r
    /\ areq' = [areq EXCEPT ![r] = q]
    /\ ddpm_steps' = ApplySteps(q)
    /\ seed_rng' = ApplySeed(q)
    /\ atCall' = [atCall EXCEPT ![r] = <<ApplySteps(q), ApplySeed(q)>>]
    /\ engineArgs' = [engineArgs EXCEPT ![r] = <<ApplySteps(q), ApplySeed(q)>>]
    /\ EnterEngine(r)
    /\ apc' = [apc EXCEPT ![r] = "batch"]
    /\ UNCHANGED <<worker, produced, audio_queue, yielded, batchAudio,
                   droppedAt>>
    /\ UNCHANGED <<coreVars, fnVars>>

\* self.model.generate returns the whole waveform, or raises
BatchEnd(r) ==
    /\ apc[r] = "batch"
    /\ \E ok \in BOOLEAN :
        IF ok
        THEN /\ batchAudio' = [batchAudio EXCEPT ![r] =
                    Waveform(engineArgs[r], raced[r])]
             /\ apc' = [apc EXCEPT ![r] = "returned"]
        ELSE /\ apc' = [apc EXCEPT ![r] = "error"]
             /\ UNCHANGED batchAudio
    /\ seed_rng' = Advance(seed_rng, MaxChunks)
    /\ api_loop' = None
    /\ UNCHANGED <<ddpm_steps, areq, worker, engineArgs, raced,
                   produced, audio_queue, yielded, atCall, droppedAt>>
    /\ UNCHANGED <<coreVars, fnVars>>

\* the generation thread: the engine samples the next chunk and puts it on
\* the streamer; the queue takes it whatever it already holds
WorkerPut(r) ==
    /\ worker[r] = "running"
    /\ produced[r] < MaxChunks
    /\ produced' = [produced EXCEPT ![r] = @ + 1]
    /\ audio_queue' = [audio_queue EXCEPT
            ![r] = Append(@, AudioChunk(produced[r] + 1,
                                        <<ddpm_steps, seed_rng>>, raced[r]))]
    /\ seed_rng' = NextRng(seed_rng)
    /\ UNCHANGED <<api_loop, ddpm_steps, apc, areq, worker,
                   engineArgs, raced, yielded, batchAudio, atCall, droppedAt>>
    /\ UNCHANGED <<coreVars, fnVars>>

\* the generation thread: generate finishes and ends the stream
WorkerEnd(r) ==
    /\ worker[r] = "running"
    /\ produced[r] = MaxChunks
    /\ audio_queue' = [audio_queue EXCEPT ![r] = Append(@, StopSignal)]
    /\ worker' = [worker EXCEPT ![r] = "done"]
    /\ UNCHANGED <<api_loop, ddpm_steps, seed_rng, apc, areq, engineArgs,
                   raced, produced, yielded, batchAudio, atCall, droppedAt>>
    /\ UNCHANGED <<coreVars, fnVars>>

\* the generation thread: generate raises, the thread dies
WorkerRaise(r) ==
    /\ worker[r] = "running"
    /\ worker' = [worker EXCEPT ![r] = "failed"]
    /\ UNCHANGED <<api_loop, ddpm_steps, seed_rng, apc, areq, engineArgs,
                   raced, produced, audio_queue, yielded, batchAudio, atCall,
                   droppedAt>>
    /\ UNCHANGED <<coreVars, fnVars>>

\* "for chunk in audio_stream": the blocking read of the queue returns; the
\* stop signal ends the iteration, a chunk is yielded to the transport
ConsumerGet(r) ==
    /\ apc[r] = "waiting"
    /\ api_loop = r
    /\ audio_queue[r] # <<>>
    /\ audio_queue' = [audio_queue EXCEPT ![r] = Tail(@)]
    /\ IF Head(audio_queue[r]) = StopSignal
       THEN /\ apc' = [apc EXCEPT ![r] = "ended"]
            /\ UNCHANGED yielded
       ELSE /\ apc' = [apc EXCEPT ![r] = "yielded"]
            /\ yielded' = [yielded EXCEPT ![r] = Append(@, Head(audio_queue[r]))]
    /\ api_loop' = None
    /\ UNCHANGED <<ddpm_steps, seed_rng, areq, worker, engineArgs, raced,
                   produced, batchAudio, atCall, droppedAt>>
    /\ UNCHANGED <<coreVars, fnVars>>

\* after "await asyncio.sleep(0)" the response generator reads again
ConsumerResume(r) ==
    /\ apc[r] = "yielded"
    /\ api_loop = None
    /\ api_loop' = r
    /\ apc' = [apc EXCEPT ![r] = "waiting"]
    /\ UNCHANGED <<ddpm_steps, seed_rng, areq, worker, engineArgs, raced,
                   produced, audio_queue, yielded, batchAudio, atCall,
                   droppedAt>>
    /\ UNCHANGED <<coreVars, fnVars>>

\* the caller disconnects: the suspended response generator is closed
Disconnect(r) ==
    /\ apc[r] = "yielded"
    /\ apc' = [apc EXCEPT ![r] = "closed"]
    /\ droppedAt' = [droppedAt EXCEPT ![r] = produced[r]]
    /\ UNCHANGED <<api_loop, ddpm_steps, seed_rng, areq, worker, engineArgs,
                   raced, produced, audio_queue, yielded, batchAudio, atCall>>
    /\ UNCHANGED <<coreVars, fnVars>>

\* the state of the service after the start-up load_model
InitApiVars ==
    /\ api_loop = None
    /\ ddpm_steps = DefaultSteps
    /\ seed_rng = 0
    /\ apc = [r \in ApiRequests |-> "new"]
    /\ areq = [r \in ApiRequests |-> NoParams]
    /\ worker = [r \in ApiRequests |-> "none"]
    /\ engineArgs = [r \in ApiRequests |-> <<0, 0>>]
    /\ raced = [r \in ApiRequests |-> FALSE]
    /\ produced = [r \in ApiRequests |-> 0]
    /\ audio_queue = [r \in ApiRequests |-> <<>>]
    /\ yielded = [r \in ApiRequests |-> <<>>]
    /\ batchAudio = [r \in ApiRequests |-> <<>>]
    /\ atCall = [r \in ApiRequests |-> <<0, 0>>]
    /\ droppedAt = [r \in ApiRequests |-> 0]

(***************************************************************************)
(* The text functions of VibeVoiceCore, called on their own.               *)
(***************************************************************************)
MaxParseLen == 4
MaxSplitLen == 5
MaxWords == 2
MaxBracketLen == 5

\* every sequence of at most n symbols of alphabet
TextsOver(alphabet, n) == UNION {[1 .. k -> alphabet] : k \in 0 .. n}

\* a letter, whitespace, and the markers
ParseAlphabet == {"a", " "} \cup PauseMarkers

\* the pieces of well-formed and malformed markers, a letter and a blank
BracketAlphabet == {"[pause", ":", "]", "5", "0", "-", "a", " "}

\* letters, punctuation and a blank
SplitAlphabet == {"a", "B", ".", "!", ",", " "}

\* segments = self._parse_pause_keywords(text)
ParseText ==
    /\ tpc = "parse"
    /\ segments' = parse_pause_keywords(text)
    /\ tpc' = "returned"
    /\ UNCHANGED <<text, max_words, chunks>>
    /\ UNCHANGED <<coreVars, apiVars, sseVars, settingsVars, pcmVars>>

\* text_chunks = self._split_text_into_chunks(text, max_words)
SplitText ==
    /\ tpc = "split"
    /\ chunks' = split_text_into_chunks(text, max_words)
    /\ tpc' = "returned"
    /\ UNCHANGED <<text, max_words, segments>>
    /\ UNCHANGED <<coreVars, apiVars, sseVars, settingsVars, pcmVars>>

InitTextVars ==
    /\ text = <<>>
    /\ max_words = 0
    /\ segments = <<>>
    /\ chunks = <<>>
    /\ tpc = "idle"

(***************************************************************************)
(* sse_audio_generator (api/utils/streaming.py)                            *)
(***************************************************************************)
MaxStream == 3

\* the chunks a source gives: audio data, and whether audio_to_bytes can
\* encode it
SourceChunks == [pcm : {1, 2}, encodable : BOOLEAN]

\* A source iterator: the chunks it gives, how it ends ("exhausted" by
\* StopIteration, "raises" by an exception) and whether it has ended.
Sources ==
    [items : TextsOver(SourceChunks, MaxStream),
     ending : {"exhausted", "raises"}, state : {"live"}]

\* audio_to_bytes(chunk, sample_rate=sample_rate, format=format)
audio_to_bytes(chunk) == [mp3 |-> chunk.pcm]

\* base64.b64encode(chunk_bytes).decode('utf-8')
b64encode(chunk_bytes) == [base64 |-> chunk_bytes]

\* the events: f"data: {json.dumps(...)}\n\n"
ChunkEvent(id, chunk) ==
    [kind |-> "chunk", chunk_id |-> id,
     audio |-> <<b64encode(audio_to_bytes(chunk))>>]
DoneEvent == [kind |-> "done", chunk_id |-> 0, audio |-> <<>>]
ErrorEvent == [kind |-> "error", chunk_id |-> 0, audio |-> <<>>]

\* a generator that numbers every chunk alike
NextChunkId_same(id) == id

\* "chunk_id += 1"
NextChunkId(id) == id + 1

\* The generator runs to its next yield: it takes the next chunk of the
\* source, encodes it and yields its event; it yields the done event when
\* the source is exhausted and the error event when the source or the
\* encoding raises.
SseNext ==
    /\ spc = "running"
    /\ IF audio_stream.items # <<>>
       THEN LET chunk == Head(audio_stream.items)
            IN  /\ audio_stream' =
                       [audio_stream EXCEPT !.items = Tail(@)]
                /\ consumed' = Append(consumed, chunk)
                /\ IF chunk.encodable
                   THEN /\ events' =
                               Append(events, ChunkEvent(chunk_id, chunk))
                        /\ spc' = "yielded"
                   ELSE /\ events' = Append(events, ErrorEvent)
                        /\ spc' = "finished"
       ELSE /\ consumed' = consumed
            /\ IF audio_stream.ending = "exhausted"
               THEN /\ audio_stream' =
                           [audio_stream EXCEPT !.state = "exhausted"]
                    /\ events' = Append(events, DoneEvent)
               ELSE /\ audio_stream' =
                           [audio_stream EXCEPT !.state = "raised"]
                    /\ events' = Append(events, ErrorEvent)
            /\ spc' = "finished"
    /\ UNCHANGED <<chunk_id, client_pos, out_file, cpc>>
    /\ UNCHANGED <<coreVars, apiVars, textVars, settingsVars, pcmVars>>

\* the transport asks for the next event: the generator resumes after its
\* yield, counts the chunk and passes "await asyncio.sleep(0)"
SseResume ==
    /\ spc = "yielded"
    /\ chunk_id' = NextChunkId(chunk_id)
    /\ spc' = "running"
    /\ UNCHANGED <<audio_stream, events, consumed, client_pos, out_file, cpc>>
    /\ UNCHANGED <<coreVars, apiVars, textVars, settingsVars, pcmVars>>

\* the caller disconnects: the generator is closed at its yield; the
\* GeneratorExit is no Exception, so nothing more is yielded
SseClose ==
    /\ spc = "yielded"
    /\ spc' = "closed"
    /\ UNCHANGED <<audio_stream, chunk_id, events, consumed, client_pos,
                   out_file, cpc>>
    /\ UNCHANGED <<coreVars, apiVars, textVars, settingsVars, pcmVars>>

\* the demo client before its request
InitClientVars ==
    /\ client_pos = 0
    /\ out_file = <<>>
    /\ cpc = "idle"

InitSseVars ==
    /\ audio_stream = [items |-> <<>>, ending |-> "exhausted", state |-> "live"]
    /\ chunk_id = 0
    /\ events = <<>>
    /\ consumed = <<>>
    /\ spc = "idle"
    /\ InitClientVars

(***************************************************************************)
(* The SSE branch of VibeVoiceClient.generate_vibevoice                    *)
(* (demo/gradio_demo.py), reading the frames of sse_audio_generator.       *)
(***************************************************************************)
\* What sseclient makes of a frame f"data: {json.dumps(...)}\n\n": the frame
\* has no "event:" line, so the event type is the default "message"; the
\* data is the JSON text.
Frame(e) == [event |-> "message", data |-> e]

\* base64.b64decode(event.data): the bytes behind base64 text; a JSON text
\* is no base64 text of the audio
b64decode(data) ==
    IF DOMAIN data = {"base64"} THEN data.base64 ELSE [invalid |-> data]

\* "for event in client.events()": the client takes the next frame; it
\* writes the decoded data of an "audio" event, raises gr.Error on an
\* "error" event and passes over every other event
ClientEvent ==
    /\ cpc = "reading"
    /\ client_pos < Len(events)
    /\ LET event == Frame(events[client_pos + 1])
       IN  /\ client_pos' = client_pos + 1
           /\ IF event.event = "audio"
              THEN /\ out_file' = Append(out_file, b64decode(event.data))
                   /\ cpc' = cpc
              ELSE IF event.event = "error"
              THEN /\ cpc' = "stream error"
                   /\ out_file' = out_file
              ELSE UNCHANGED <<out_file, cpc>>
    /\ UNCHANGED <<audio_stream, chunk_id, events, consumed, spc>>
    /\ UNCHANGED <<coreVars, apiVars, textVars, settingsVars, pcmVars>>

\* the response body has ended and every frame is read: the loop ends and
\* the client reports "Complete"
ClientEnd ==
    /\ cpc = "reading"
    /\ spc = "finished"
    /\ client_pos = Len(events)
    /\ cpc' = "complete"
    /\ UNCHANGED <<audio_stream, chunk_id, events, consumed, spc, client_pos,
                   out_file>>
    /\ UNCHANGED <<coreVars, apiVars, textVars, settingsVars, pcmVars>>

(***************************************************************************)
(* convert_to_16_bit_wav and audio_to_bytes with format "pcm"              *)
(* (api/utils/audio_utils.py), as audio_chunk_generator and the batch path *)
(* call them. A sample s stands for the value s / SampleUnit.              *)
(***************************************************************************)
SampleUnit == 2
MaxSample == 3
MaxChunkLen == 2
MaxAudioChunks == 2

\* "audio * 32767"
Int16Scale == 32767

Abs(x) == IF x < 0 THEN 0 - x ELSE x

\* np.max(np.abs(audio))
RECURSIVE Peak(_)
Peak(a) ==
    IF Len(a) = 1 THEN Abs(a[1])
    ELSE IF Abs(Head(a)) > Peak(Tail(a)) THEN Abs(Head(a)) ELSE Peak(Tail(a))

\* a conversion that scales without bringing the samples into range
Divisor_none(a) == SampleUnit

\* "if np.max(np.abs(audio)) > 1.0: audio = audio / np.max(np.abs(audio))":
\* what a sample is divided by to give its value
Divisor(a) == IF Peak(a) > SampleUnit THEN Peak(a) ELSE SampleUnit

\* a float converted to an integer: the fraction is dropped
Truncate(n, d) == IF n < 0 THEN 0 - ((0 - n) \div d) ELSE n \div d

\* "audio * 32767" for every sample, before the cast
Scaled(a) == [i \in 1 .. Len(a) |-> Truncate(a[i] * Int16Scale, Divisor(a))]

\* astype(np.int16): 16 bits, two's complement
AsInt16(v) == ((v + 32768) % 65536) - 32768

convert_to_16_bit_wav(a) == [i \in 1 .. Len(a) |-> AsInt16(Scaled(a)[i])]

\* ndarray.tobytes() of int16 samples: low byte, high byte
RECURSIVE tobytes(_)
tobytes(a16) ==
    IF a16 = <<>> THEN <<>>
    ELSE <<(Head(a16) % 65536) % 256, (Head(a16) % 65536) \div 256>>
         \o tobytes(Tail(a16))

\* audio_to_bytes(audio, format="pcm")
audio_to_pcm(a) == tobytes(convert_to_16_bit_wav(a))

\* the record of one convert_to_16_bit_wav call
Conversion(a) == [scaled |-> Scaled(a), int16 |-> convert_to_16_bit_wav(a)]

RECURSIVE Concat(_)
Concat(seqs) == IF seqs = <<>> THEN <<>> ELSE Head(seqs) \o Concat(Tail(seqs))

\* audio_chunk_generator: the next chunk of the stream is encoded and yielded
EncodeChunk ==
    /\ kpc = "encoding"
    /\ encoded < Len(audio_chunks)
    /\ encoded' = encoded + 1
    /\ stream_bytes' =
           Append(stream_bytes, audio_to_pcm(audio_chunks[encoded + 1]))
    /\ conversions' = Append(conversions, Conversion(audio_chunks[encoded + 1]))
    /\ UNCHANGED <<audio_chunks, whole_bytes, kpc>>
    /\ UNCHANGED <<coreVars, apiVars, textVars, sseVars, settingsVars>>

\* the batch path: audio_to_bytes on the whole audio of the same generation
EncodeWhole ==
    /\ kpc = "encoding"
    /\ whole_bytes = <<>>
    /\ whole_bytes' = audio_to_pcm(Concat(audio_chunks))
    /\ UNCHANGED <<audio_chunks, encoded, stream_bytes, conversions, kpc>>
    /\ UNCHANGED <<coreVars, apiVars, textVars, sseVars, settingsVars>>

InitPcmVars ==
    /\ audio_chunks = <<>>
    /\ encoded = 0
    /\ stream_bytes = <<>>
    /\ whole_bytes = <<>>
    /\ conversions = <<>>
    /\ kpc = "idle"

(***************************************************************************)
(* Settings (api/config.py) and the start of TTSService.load_model         *)
(***************************************************************************)
\* values of VIBEVOICE_DEVICE the service handles
DevicePreferences == {"cuda", "cuda:0", "mps", "cpu"}

\* Settings.get_device
get_device ==
    IF vibevoice_device = "cuda" /\ ~cuda_available THEN "cpu"
    ELSE IF vibevoice_device = "mps" /\ ~mps_available THEN "cpu"
    ELSE vibevoice_device

\* Settings.get_dtype
get_dtype ==
    IF vibevoice_dtype # <<>> THEN vibevoice_dtype[1]
    ELSE IF get_device = "cuda" THEN "bfloat16"
    ELSE "float32"

\* Settings.get_attn_implementation
get_attn_implementation ==
    IF vibevoice_attn_implementation # <<>>
    THEN vibevoice_attn_implementation[1]
    ELSE IF get_device = "cuda"
         THEN IF flash_attn_installed THEN "flash_attention_2" ELSE "sdpa"
         ELSE "sdpa"

\* TTSService.load_model: "Get device and dtype"
ResolveSettings ==
    /\ lpc = "start"
    /\ ~model_loaded
    /\ device' = get_device
    /\ dtype' = get_dtype
    /\ attn_implementation' = get_attn_implementation
    /\ lpc' = "resolved"
    /\ UNCHANGED <<vibevoice_device, vibevoice_dtype,
                   vibevoice_attn_implementation, cuda_available,
                   mps_available, flash_attn_installed, failing_attn,
                   tts_processor, tts_model, model_loaded, attempts,
                   load_raised>>
    /\ UNCHANGED <<coreVars, apiVars, textVars, sseVars, pcmVars>>

\* the fields class Settings declares
SettingsFields ==
    {"vibevoice_model_path", "vibevoice_device", "vibevoice_inference_steps",
     "vibevoice_dtype", "vibevoice_attn_implementation", "voices_dir",
     "openai_voice_mapping", "api_host", "api_port", "api_workers",
     "api_cors_origins", "default_cfg_scale", "default_response_format",
     "max_generation_length", "default_do_sample", "default_temperature",
     "default_top_p", "default_top_k", "default_repetition_penalty",
     "log_level"}

\* self.settings.<name>: an attribute the class does not declare raises
\* AttributeError
HasSetting(name) == name \in SettingsFields

\* the exceptions TTSService.load_model lets through
ProcessorFailed == "VibeVoiceProcessor.from_pretrained failed"
ConstructionFailed == "from_pretrained failed"
AttributeError == "'Settings' object has no attribute"

\* the implementations the host can fail to construct the model with
AttnImplementations == {"flash_attention_2", "sdpa", "eager"}

\* "Load processor": no try around it, an exception leaves load_model
LoadProcessor ==
    /\ lpc = "resolved"
    /\ \E ok \in BOOLEAN :
        IF ok
        THEN /\ tts_processor' = "VibeVoiceProcessor"
             /\ lpc' = "construct"
             /\ UNCHANGED load_raised
        ELSE /\ lpc' = "raised"
             /\ load_raised' = ProcessorFailed
             /\ UNCHANGED tts_processor
    /\ UNCHANGED <<vibevoice_device, vibevoice_dtype,
                   vibevoice_attn_implementation, cuda_available,
                   mps_available, flash_attn_installed, device, dtype,
                   attn_implementation, failing_attn, tts_model,
                   model_loaded, attempts>>
    /\ UNCHANGED <<coreVars, apiVars, textVars, sseVars, pcmVars>>

\* "Standard loading path": from_pretrained with the resolved implementation
\* inside try; the except clause constructs again with "sdpa" when the
\* implementation was "flash_attention_2" and re-raises otherwise
ConstructModel ==
    /\ lpc = "construct"
    /\ IF attn_implementation \notin failing_attn
       THEN /\ attempts' = <<attn_implementation>>
            /\ tts_model' = <<attn_implementation>>
            /\ lpc' = "constructed"
            /\ UNCHANGED load_raised
       ELSE IF attn_implementation = "flash_attention_2"
       THEN /\ attempts' = <<attn_implementation, "sdpa">>
            /\ IF "sdpa" \notin failing_attn
               THEN /\ tts_model' = <<"sdpa">>
                    /\ lpc' = "constructed"
                    /\ UNCHANGED load_raised
               ELSE /\ lpc' = "raised"
                    /\ load_raised' = ConstructionFailed
                    /\ UNCHANGED tts_model
       ELSE /\ attempts' = <<attn_implementation>>
            /\ lpc' = "raised"
            /\ load_raised' = ConstructionFailed
            /\ UNCHANGED tts_model
    /\ UNCHANGED <<vibevoice_device, vibevoice_dtype,
                   vibevoice_attn_implementation, cuda_available,
                   mps_available, flash_attn_installed, device, dtype,
                   attn_implementation, failing_attn, tts_processor,
                   model_loaded>>
    /\ UNCHANGED <<coreVars, apiVars, textVars, sseVars, pcmVars>>

\* The rest of load_model: model.eval(), the quantization and torch.compile
\* settings, the noise scheduler, the inference steps, "_model_loaded = True".
\* _apply_quantization and torch.compile catch their own failures; reading
\* the settings that select them does not.
FinishLoad ==
    /\ lpc = "constructed"
    /\ IF HasSetting("vibevoice_quantization") /\ HasSetting("torch_compile")
       THEN /\ model_loaded' = TRUE
            /\ lpc' = "loaded"
            /\ UNCHANGED load_raised
       ELSE /\ lpc' = "raised"
            /\ load_raised' = AttributeError
            /\ UNCHANGED model_loaded
    /\ UNCHANGED <<vibevoice_device, vibevoice_dtype,
                   vibevoice_attn_implementation, cuda_available,
                   mps_available, flash_attn_installed, device, dtype,
                   attn_implementation, failing_attn, tts_processor,
                   tts_model, attempts>>
    /\ UNCHANGED <<coreVars, apiVars, textVars, sseVars, pcmVars>>

\* TTSService.__init__
InitServiceVars ==
    /\ failing_attn = {}
    /\ tts_processor = None
    /\ tts_model = <<>>
    /\ model_loaded = FALSE
    /\ attempts = <<>>
    /\ load_raised = None

InitSettingsVars ==
    /\ vibevoice_device = "cuda"
    /\ vibevoice_dtype = <<>>
    /\ vibevoice_attn_implementation = <<>>
    /\ mps_available = FALSE
    /\ flash_attn_installed = FALSE
    /\ device = None
    /\ dtype = None
    /\ attn_implementation = None
    /\ lpc = "idle"
    /\ InitServiceVars

\* the function-level variables at rest, on a host with a CUDA device
InitFnVars ==
    /\ InitTextVars
    /\ InitSseVars
    /\ InitSettingsVars
    /\ InitPcmVars
    /\ cuda_available = TRUE

(***************************************************************************)
(* The standalone programs.                                                *)
(***************************************************************************)
InitCoreVars(rng0) ==
    /\ loop = None
    /\ model = NoInstance
    /\ processor = None
    /\ current_model = None
    /\ current_attention_type = None
    /\ current_quantize_llm = "full precision"
    /\ current_lora_path = None
    /\ np_rng = rng0
    /\ torch_rng = 0
    /\ nextId = 1
    /\ served = 0
    /\ pc = [h \in Handlers |-> "idle"]
    /\ req = [h \in Handlers |-> NoRequest]
    /\ pending = [h \in Handlers |-> NoInstance]
    /\ inUse = [h \in Handlers |-> NoInstance]
    /\ voice = [h \in Handlers |-> NoVoice]
    /\ unit = [h \in Handlers |-> 0]
    /\ audio = [h \in Handlers |-> <<>>]
    /\ result = [h \in Handlers |-> <<>>]
    /\ loadBranch = [h \in Handlers |-> "none"]
    /\ units = [h \in Handlers |-> <<>>]
    /\ engine_calls = [h \in Handlers |-> <<>>]
    /\ raised = [h \in Handlers |-> None]
    /\ status = [h \in Handlers |-> 0]
    /\ frees = 0

HandlerStep(h) ==
    \/ \E r \in Requests : StartRequest(h, r)
    \/ LoadCheck(h)
    \/ LoadConstruct(h)
    \/ LoadAssign(h)
    \/ PrepareVoice(h)
    \/ GenStart(h)
    \/ GenPause(h)
    \/ ChunkBegin(h)
    \/ ChunkEnd(h)
    \/ GenFinish(h)

\* standalone/fastapi_server.py
InitServer ==
    /\ mode = "asyncio"
    /\ \E rng0 \in 0 .. RngMod - 1 : InitCoreVars(rng0)
    /\ InitApiVars
    /\ InitFnVars

NextServer ==
    \/ \E h \in Handlers : HandlerStep(h)
    \/ \E h \in Handlers : AwaitRead(h)
    \/ \E h \in Handlers : ResumeRead(h)
    \/ FreeEndpoint

SpecServer == InitServer /\ [][NextServer]_vars

\* POST /tts/single of fastapi_server.py, also with requests without text
BlankScripts == { <<>>, <<" ">>, <<"\n", " ">> }

SingleRequests ==
    [cfg : {<<"VibeVoice-Large", "auto", "full precision">>},
     free_memory : BOOLEAN, voice_file : BOOLEAN, seed : Seeds,
     diffusion_steps : DiffusionSteps,
     script : BlankScripts \cup { HelloWorld, <<" ", "a">> },
     max_words_per_chunk : {DefaultMaxWords}]

InitSingle ==
    /\ mode = "asyncio"
    /\ InitCoreVars(0)
    /\ InitApiVars
    /\ InitFnVars

NextSingle ==
    \/ \E r \in SingleRequests : StartRequest("h1", r)
    \/ LoadCheck("h1")
    \/ LoadConstruct("h1")
    \/ LoadAssign("h1")
    \/ AwaitRead("h1")
    \/ ResumeRead("h1")
    \/ PrepareVoice("h1")
    \/ GenStart("h1")
    \/ GenPause("h1")
    \/ ChunkBegin("h1")
    \/ ChunkEnd("h1")
    \/ GenFinish("h1")

SpecSingle == InitSingle /\ [][NextSingle]_vars

\* standalone/gradio_app.py
InitGradio ==
    /\ mode = "threads"
    /\ \E rng0 \in 0 .. RngMod - 1 : InitCoreVars(rng0)
    /\ InitApiVars
    /\ InitFnVars

NextGradio == \E h \in Handlers : HandlerStep(h)

SpecGradio == InitGradio /\ [][NextGradio]_vars

\* api/main.py with the routers of api/routers
InitApi ==
    /\ mode = "asyncio"
    /\ InitCoreVars(0)
    /\ InitApiVars
    /\ InitFnVars

NextApi ==
    \/ \E r \in ApiRequests, q \in ApiParams : StreamCall(r, q)
    \/ \E r \in ApiRequests : StreamStart(r)
    \/ \E r \in ApiRequests, q \in ApiParams : BatchBegin(r, q)
    \/ \E r \in ApiRequests : BatchEnd(r)
    \/ \E r \in ApiRequests : WorkerPut(r)
    \/ \E r \in ApiRequests : WorkerEnd(r)
    \/ \E r \in ApiRequests : WorkerRaise(r)
    \/ \E r \in ApiRequests : ConsumerGet(r)
    \/ \E r \in ApiRequests : ConsumerResume(r)
    \/ \E r \in ApiRequests : Disconnect(r)

SpecApi == InitApi /\ [][NextApi]_vars

\* VibeVoiceCore with one caller: load_model, then generate_speech
CoreScripts ==
    { HelloWorld,
      <<"a", "[pause:0]", "a", "[pause]">>,
      <<"A", ".", " ", "B", ".", "[pause:200]", "a">>,
      <<"[pause]">> }

CoreConfigs ==
    { <<"VibeVoice-Large", "auto", "full precision">>,
      <<"VibeVoice-1.5B", "auto", "full precision">>,
      <<"VibeVoice-7B", "auto", "full precision">>,
      <<"VibeVoice-Large", "auto", "4bit">> }

CoreRequests ==
    [cfg : CoreConfigs, free_memory : BOOLEAN, voice_file : {FALSE},
     seed : Seeds, diffusion_steps : DiffusionSteps, script : CoreScripts,
     max_words_per_chunk : {1, DefaultMaxWords}]

InitCore ==
    /\ mode = "threads"
    /\ InitCoreVars(0)
    /\ InitApiVars
    /\ InitPcmVars
    /\ InitTextVars
    /\ InitSseVars
    /\ InitSettingsVars
    /\ cuda_available \in BOOLEAN

NextCore ==
    \/ \E r \in CoreRequests : StartRequest("h1", r)
    \/ LoadCheck("h1")
    \/ LoadConstruct("h1")
    \/ LoadAssign("h1")
    \/ PrepareVoice("h1")
    \/ GenStart("h1")
    \/ GenPause("h1")
    \/ ChunkBegin("h1")
    \/ ChunkEnd("h1")
    \/ GenFinish("h1")

SpecCore == InitCore /\ [][NextCore]_vars

\* _parse_pause_keywords on every text of the bound
InitParse ==
    /\ mode = "asyncio"
    /\ InitCoreVars(0)
    /\ InitApiVars
    /\ InitPcmVars
    /\ InitSseVars
    /\ InitSettingsVars
    /\ cuda_available = TRUE
    /\ text \in TextsOver(ParseAlphabet, MaxParseLen)
    /\ max_words = 0
    /\ segments = <<>>
    /\ chunks = <<>>
    /\ tpc = "parse"

SpecParse == InitParse /\ [][ParseText]_vars

\* _parse_pause_keywords on every text of bracket pieces of the bound
InitBrackets ==
    /\ mode = "asyncio"
    /\ InitCoreVars(0)
    /\ InitApiVars
    /\ InitPcmVars
    /\ InitSseVars
    /\ InitSettingsVars
    /\ cuda_available = TRUE
    /\ text \in TextsOver(BracketAlphabet, MaxBracketLen)
    /\ max_words = 0
    /\ segments = <<>>
    /\ chunks = <<>>
    /\ tpc = "parse"

SpecBrackets == InitBrackets /\ [][ParseText]_vars

\* _split_text_into_chunks on every text and word budget of the bounds
InitSplit ==
    /\ mode = "asyncio"
    /\ InitCoreVars(0)
    /\ InitApiVars
    /\ InitPcmVars
    /\ InitSseVars
    /\ InitSettingsVars
    /\ cuda_available = TRUE
    /\ text \in TextsOver(SplitAlphabet, MaxSplitLen)
    /\ max_words \in 1 .. MaxWords
    /\ segments = <<>>
    /\ chunks = <<>>
    /\ tpc = "split"

SpecSplit == InitSplit /\ [][SplitText]_vars

\* sse_audio_generator over every source of the bound
InitSse ==
    /\ mode = "asyncio"
    /\ InitCoreVars(0)
    /\ InitApiVars
    /\ InitPcmVars
    /\ InitTextVars
    /\ InitSettingsVars
    /\ cuda_available = TRUE
    /\ audio_stream \in Sources
    /\ chunk_id = 0
    /\ events = <<>>
    /\ consumed = <<>>
    /\ spc = "running"
    /\ InitClientVars

NextSse ==
    \/ SseNext
    \/ SseResume
    \/ SseClose

SpecSse == InitSse /\ [][NextSse]_vars

\* the demo client reading the stream of sse_audio_generator
InitSseClient ==
    /\ mode = "asyncio"
    /\ InitCoreVars(0)
    /\ InitApiVars
    /\ InitPcmVars
    /\ InitTextVars
    /\ InitSettingsVars
    /\ cuda_available = TRUE
    /\ audio_stream \in Sources
    /\ chunk_id = 0
    /\ events = <<>>
    /\ consumed = <<>>
    /\ spc = "running"
    /\ client_pos = 0
    /\ out_file = <<>>
    /\ cpc = "reading"

NextSseClient ==
    \/ SseNext
    \/ SseResume
    \/ ClientEvent
    \/ ClientEnd

SpecSseClient == InitSseClient /\ [][NextSseClient]_vars

\* the settings of the service on every host
InitSettings ==
    /\ mode = "asyncio"
    /\ InitCoreVars(0)
    /\ InitApiVars
    /\ InitPcmVars
    /\ InitTextVars
    /\ InitSseVars
    /\ vibevoice_device \in DevicePreferences
    /\ vibevoice_dtype \in {<<>>, <<"float16">>}
    /\ vibevoice_attn_implementation \in {<<>>, <<"eager">>}
    /\ cuda_available \in BOOLEAN
    /\ mps_available \in BOOLEAN
    /\ flash_attn_installed \in BOOLEAN
    /\ device = None
    /\ dtype = None
    /\ attn_implementation = None
    /\ lpc = "start"
    /\ InitServiceVars

SpecSettings == InitSettings /\ [][ResolveSettings]_vars

\* the two encoding paths on every audio of the bounds; a chunk of a
\* generation holds at least one sample
AudioChunkValues ==
    UNION {[1 .. k -> (0 - MaxSample) .. MaxSample] : k \in 1 .. MaxChunkLen}

InitPcm ==
    /\ mode = "asyncio"
    /\ InitCoreVars(0)
    /\ InitApiVars
    /\ InitTextVars
    /\ InitSseVars
    /\ InitSettingsVars
    /\ cuda_available = TRUE
    /\ audio_chunks \in
           UNION {[1 .. k -> AudioChunkValues] : k \in 1 .. MaxAudioChunks}
    /\ encoded = 0
    /\ stream_bytes = <<>>
    /\ whole_bytes = <<>>
    /\ conversions = <<>>
    /\ kpc = "encoding"

NextPcm ==
    \/ EncodeChunk
    \/ EncodeWhole

SpecPcm == InitPcm /\ [][NextPcm]_vars

\* TTSService.load_model on every host and with every setting of the
\* attention implementation
InitLoad ==
    /\ mode = "asyncio"
    /\ InitCoreVars(0)
    /\ InitApiVars
    /\ InitPcmVars
    /\ InitTextVars
    /\ InitSseVars
    /\ vibevoice_device \in DevicePreferences
    /\ vibevoice_dtype = <<>>
    /\ vibevoice_attn_implementation \in
           {<<>>} \cup {<<a>> : a \in AttnImplementations}
    /\ cuda_available \in BOOLEAN
    /\ mps_available \in BOOLEAN
    /\ flash_attn_installed \in BOOLEAN
    /\ device = None
    /\ dtype = None
    /\ attn_implementation = None
    /\ lpc = "start"
    /\ failing_attn \in SUBSET AttnImplementations
    /\ tts_processor = None
    /\ tts_model = <<>>
    /\ model_loaded = FALSE
    /\ attempts = <<>>
    /\ load_raised = None

NextLoad ==
    \/ ResolveSettings
    \/ LoadProcessor
    \/ ConstructModel
    \/ FinishLoad

SpecLoad == InitLoad /\ [][NextLoad]_vars

(***************************************************************************)
(* Properties of the standalone core.                                      *)
(***************************************************************************)
\* The instances that are alive: referenced by the core, by a load_model
\* that has not assigned its result yet, or by a running generate call.
LiveInstances ==
    ({model} \cup {pending[h] : h \in Handlers} \cup {inUse[h] : h \in Handlers})
        \ {NoInstance}

RecordedConfig ==
    <<current_model, current_attention_type, current_quantize_llm>>

\* C4: whenever a handler's generate_speech is executing the engine, the
\* instance it runs on was constructed with the configuration this request
\* passed to load_model, and it is still the loaded model.
C4_GenerationUsesRequestedConfig ==
    \A h \in Handlers :
        inUse[h] # NoInstance =>
            /\ inUse[h].cfg = req[h].cfg
            /\ model = inUse[h]

\* C6: two batch generate_speech calls with identical arguments (script,
\* voice samples or their absence, seed, steps, configuration) return
\* identical audio, whatever ran before each call.
SameArguments(r1, r2) ==
    /\ r1.script = r2.script
    /\ r1.voice_file = r2.voice_file
    /\ r1.seed = r2.seed
    /\ r1.diffusion_steps = r2.diffusion_steps
    /\ r1.cfg = r2.cfg

C6_IdenticalCallsIdenticalAudio ==
    \A h1, h2 \in Handlers :
        (pc[h1] = "done" /\ pc[h2] = "done" /\ SameArguments(req[h1], req[h2]))
            => result[h1] = result[h2]

\* C8: free_memory never drops the model while a generation is executing
\* against it: as long as a handler is inside the engine's generate call,
\* the core still holds the instance that call runs on.
C8_NoTeardownDuringGeneration ==
    \A h \in Handlers :
        inUse[h] # NoInstance => (model = inUse[h] /\ processor # None)

C10_IdenticalConfigReusesHandle ==
    [][\A h \in Handlers :
          (/\ pc[h] = "load"
           /\ pc'[h] # "load"
           /\ model # NoInstance
           /\ RecordedConfig = req[h].cfg
           /\ current_lora_path = None)
          => (/\ UNCHANGED handleVars
              /\ nextId' = nextId
              /\ pc'[h] = "voice")]_vars

C10_Witness ==
    \E h \in Handlers :
        /\ pc[h] = "voice"
        /\ loadBranch[h] = "same"
        /\ model # NoInstance
        /\ RecordedConfig = req[h].cfg

\* C11: when load_model raises, at whatever step, the handle is left
\* unloaded: model and processor are None and no model is recorded as
\* current.
LoadErrors == {ModelNotFound, ModelLoadingFailed, QuantizationNeedsCuda}

C11_FailedLoadLeavesUnloaded ==
    \A h \in Handlers :
        (pc[h] = "error" /\ raised[h] \in LoadErrors) =>
            /\ model = NoInstance
            /\ processor = None
            /\ current_model = None

IsText(u) == u.type = "text"

\* the texts of the text units of us, in order
TextsOf(us) ==
    LET t == SelectSeq(us, IsText)
    IN  [i \in 1 .. Len(t) |-> t[i].text]

\* C12: when the engine fails on a chunk, generate_speech raises: the call
\* returns no audio, not even what the earlier chunks and pauses produced,
\* and the failing chunk is the last one it submitted to the engine.
C12_ChunkFailureAborts ==
    \A h \in Handlers :
        raised[h] = EngineFailed =>
            /\ pc[h] = "error"
            /\ result[h] = <<>>
            /\ engine_calls[h] = TextsOf(SubSeq(units[h], 1, unit[h]))

C12_Witness ==
    \E h \in Handlers :
        /\ pc[h] = "error"
        /\ raised[h] = EngineFailed
        /\ audio[h] # <<>>
        /\ \E i \in unit[h] + 1 .. Len(units[h]) : units[h][i].type = "text"

\* w is what the unit u contributes to the buffer: the silence of a pause,
\* the engine's waveform of the text of a chunk
IsWaveformOf(w, u) ==
    IF u.type = "pause"
    THEN w = [kind |-> "silence", samples |-> (u.ms * SampleRate) \div 1000]
    ELSE w.kind = "speech" /\ w.text = u.text

\* C18: the buffer a batch generate_speech returns is, unit by unit in the
\* order of the segments and of the chunks inside a text segment, the
\* engine's waveform of each chunk and the silence of each pause; the engine
\* was called once per chunk, in that order, and never for a pause.
C18_AssemblyFollowsSegmentOrder ==
    \A h \in Handlers :
        /\ pc[h] \in {"units", "engine", "done"} =>
              /\ units[h] = Units(parse_pause_keywords(req[h].script),
                                  req[h].max_words_per_chunk)
              /\ \A i \in 1 .. Len(audio[h]) :
                    IsWaveformOf(audio[h][i], units[h][i])
        /\ pc[h] = "done" =>
              /\ result[h] = audio[h]
              /\ Len(result[h]) = Len(units[h])
              /\ engine_calls[h] = TextsOf(units[h])

C18_Witness ==
    \E h \in Handlers :
        /\ pc[h] = "done"
        /\ Len(units[h]) = 4
        /\ Len(engine_calls[h]) = 3
        /\ units[h][3].type = "pause"

\* C19: a pause of d ms contributes exactly d * 24000 / 1000 zero samples at
\* its position (none for d = 0), and "Hello.\n[pause:200]\nWorld." gives the
\* waveform of "Hello.", 4800 zero samples, the waveform of "World.".
C19_SilenceSamples ==
    \A h \in Handlers :
        pc[h] = "done" =>
            /\ \A i \in 1 .. Len(units[h]) :
                  units[h][i].type = "pause" =>
                      /\ result[h][i].kind = "silence"
                      /\ result[h][i].samples * 1000
                             = units[h][i].ms * SampleRate
            /\ req[h].script = HelloWorld =>
                  /\ Len(result[h]) = 3
                  /\ result[h][1].kind = "speech"
                  /\ result[h][1].text = <<"H", ".">>
                  /\ result[h][2] = [kind |-> "silence", samples |-> 4800]
                  /\ result[h][3].kind = "speech"
                  /\ result[h][3].text = <<"W", ".">>

C19_Witness ==
    \E h \in Handlers :
        /\ pc[h] = "done"
        /\ req[h].script = HelloWorld
        /\ result[h][2].kind = "silence"

(***************************************************************************)
(* Properties of the API service.                                          *)
(***************************************************************************)
\* C1: at no time do two generations (batch or streaming) execute the
\* engine's generate call concurrently on the one loaded model.
C1_SingleFlight == Cardinality(InEngine) <= 1

\* C2: once the consumer of a stream has been closed, the generation thread
\* stops after the unit it was producing: it does not generate the rest.
C2_ProducerStopsAfterDrop ==
    \A r \in ApiRequests :
        apc[r] = "closed" => produced[r] <= droppedAt[r] + 1

\* C3: the consumer never waits forever: while it waits on the queue, either
\* an item (chunk, end or error sentinel) is there for it, or the generation
\* thread is still alive to put one.
C3_ConsumerNeverStuck ==
    \A r \in ApiRequests :
        apc[r] = "waiting" => (audio_queue[r] # <<>> \/ worker[r] = "running")

\* C5: when a stream has ended, the chunks it yielded are, in order, exactly
\* the waveform a batch call of the same request returns.
C5_StreamEqualsBatch ==
    \A r \in ApiRequests :
        apc[r] = "ended" => yielded[r] = Waveform(atCall[r], FALSE)

\* C7: the chunks produced and not yet consumed never exceed the capacity of
\* the delivery queue. The capacity is taken one below the length of a
\* stream: a queue with any bound would make the producer block before the
\* whole stream is buffered.
QueueCapacity == MaxChunks - 1

IsChunk(c) == c # StopSignal

C7_QueueBounded ==
    \A r \in ApiRequests :
        Len(SelectSeq(audio_queue[r], IsChunk)) <= QueueCapacity

(***************************************************************************)
(* Properties of sse_audio_generator.                                      *)
(***************************************************************************)
IsChunkEvent(e) == e.kind = "chunk"

\* C13: an event stream is chunk events numbered 0, 1, 2, ... that carry the
\* source's chunks in source order, then at most one terminal event, which
\* is the last event; when the generator has finished there is exactly one,
\* the done marker if the source was exhausted and an error event if it
\* raised; every chunk taken from the source before the end stays emitted.
C13_SseStreamShape ==
    LET n == Len(events)
        k == Len(SelectSeq(events, IsChunkEvent))
    IN  /\ \A i \in 1 .. n : events[i].kind # "chunk" => i = n
        /\ \A i \in 1 .. n :
              events[i].kind = "chunk" =>
                  /\ i <= Len(consumed)
                  /\ events[i] = ChunkEvent(i - 1, consumed[i])
        /\ spc \in {"running", "yielded", "closed"} =>
              (n = k /\ k = Len(consumed))
        /\ spc = "finished" =>
              /\ n = k + 1
              /\ audio_stream.state = "exhausted" =>
                    (events[n] = DoneEvent /\ k = Len(consumed))
              /\ audio_stream.state = "raised" =>
                    (events[n] = ErrorEvent /\ k = Len(consumed))
              /\ audio_stream.state = "live" =>
                    (events[n] = ErrorEvent /\ k = Len(consumed) - 1)

C13_Witness ==
    /\ spc = "finished"
    /\ audio_stream.state = "raised"
    /\ Len(events) = 3
    /\ events[3] = ErrorEvent
    /\ events[2].chunk_id = 1

(***************************************************************************)
(* Properties of the text functions.                                       *)
(***************************************************************************)
\* the words of the chunks, chunk after chunk
RECURSIVE WordsOfAll(_)
WordsOfAll(cs) ==
    IF cs = <<>> THEN <<>> ELSE split(Head(cs)) \o WordsOfAll(Tail(cs))

\* C14: the words of the chunks _split_text_into_chunks returns, taken in
\* order, are exactly the words of the text.
C14_SplitPreservesWords ==
    tpc = "returned" => WordsOfAll(chunks) = split(text)

\* a run that offers no place to split: no comma, no semicolon, no
\* sentence-ending punctuation before further text
Unsplittable(c) ==
    /\ \A i \in 1 .. Len(c) : c[i] \notin Separators
    /\ \A i \in 1 .. Len(c) - 1 :
          ~(c[i] \in Terminal /\ c[i + 1] \in Whitespace)

\* C15: every chunk _split_text_into_chunks returns has at most max_words
\* words, unless it is a single run that offers no place to split.
C15_ChunksWithinBudget ==
    tpc = "returned" =>
        \A j \in 1 .. Len(chunks) :
            Len(split(chunks[j])) <= max_words \/ Unsplittable(chunks[j])

\* C16: for a text without pause marker _parse_pause_keywords returns one
\* text segment, the text with leading and trailing whitespace removed.
C16_UnmarkedTextOneTrimmedSegment ==
    (tpc = "returned" /\ \A i \in 1 .. Len(text) : text[i] \notin PauseMarkers)
        => segments = <<TextUnit(strip(text))>>

\* the positions of the markers of t, and the n-th of them
MarkerPositions(t) == {i \in 1 .. Len(t) : t[i] \in PauseMarkers}
MarkerAt(t, n) ==
    CHOOSE i \in MarkerPositions(t) :
        Cardinality({j \in MarkerPositions(t) : j <= i}) = n

\* The runs and markers of t in their order of appearance: item 2n is the
\* n-th marker as a pause, item 2n + 1 the trimmed text run that follows it
\* (item 1 the run before the first marker).
RunsAndMarkers(t) ==
    LET k == Cardinality(MarkerPositions(t))
        first(n) == IF n = 1 THEN 1 ELSE MarkerAt(t, (n - 1) \div 2) + 1
        last(n) == IF n = 2 * k + 1 THEN Len(t)
                   ELSE MarkerAt(t, (n + 1) \div 2) - 1
    IN  [n \in 1 .. 2 * k + 1 |->
            IF n % 2 = 0
            THEN PauseUnit(IF t[MarkerAt(t, n \div 2)] = "[pause]" THEN 1000
                           ELSE IF t[MarkerAt(t, n \div 2)] = "[pause:200]"
                                THEN 200 ELSE 0)
            ELSE TextUnit(strip(SubSeq(t, first(n), last(n))))]

IsPauseOrText(u) == u.type = "pause" \/ u.text # <<>>

\* C17: _parse_pause_keywords returns the text runs and the markers in
\* their order of appearance, each marker as a pause of its duration (1000 ms
\* for "[pause]"), each text run trimmed, and no text run that is empty
\* after trimming.
C17_SegmentsInOrderTrimmed ==
    tpc = "returned" => segments = SelectSeq(RunsAndMarkers(text), IsPauseOrText)

(***************************************************************************)
(* Properties of the settings.                                             *)
(***************************************************************************)
\* the accelerator class of a device preference is available on the host
AcceleratorAvailable(d) ==
    CASE d \in {"cuda", "cuda:0"} -> cuda_available
      [] d = "mps" -> mps_available
      [] OTHER -> TRUE

\* C20: device resolution returns the preference when its accelerator class
\* is available on the host, and cpu when it is not.
C20_DeviceFallsBackToCpu ==
    lpc = "resolved" =>
        device = IF AcceleratorAvailable(vibevoice_device)
                 THEN vibevoice_device ELSE "cpu"

(***************************************************************************)
(* Properties of TTSService.load_model.                                    *)
(***************************************************************************)
\* C21: when the construction with flash_attention_2 fails, it is tried
\* once more with sdpa and, if that succeeds, the load completes and the
\* service is marked loaded; when another implementation fails, or the
\* retry fails too, nothing more is tried, the error leaves load_model and
\* the service is not loaded.
C21_AttentionFallback ==
    lpc \in {"loaded", "raised"} /\ attempts # <<>> =>
        LET first == attempts[1]
        IN  /\ first = attn_implementation
            /\ Len(attempts) <= 2
            /\ Len(attempts) = 2 <=>
                  (first = "flash_attention_2" /\ first \in failing_attn)
            /\ Len(attempts) = 2 => attempts[2] = "sdpa"
            /\ attempts[Len(attempts)] \notin failing_attn =>
                  (lpc = "loaded" /\ model_loaded)
            /\ attempts[Len(attempts)] \in failing_attn =>
                  (lpc = "raised" /\ ~model_loaded
                   /\ load_raised = ConstructionFailed)

(***************************************************************************)
(* Further properties of the standalone core.                              *)
(***************************************************************************)
\* C22: a quantization request the host does not support never fails the
\* load: no load_model call ends with the error that quantization requires
\* a CUDA device, the load goes on to a usable model.
C22_QuantizationNeverFailsLoad ==
    \A h \in Handlers :
        (req[h].cfg[3] # "full precision" /\ ~cuda_available) =>
            raised[h] # QuantizationNeedsCuda

\* the state free_memory leaves
Freed ==
    /\ model = NoInstance
    /\ processor = None
    /\ current_model = None
    /\ current_quantize_llm = "full precision"

\* C23: every free_memory call leaves the core without model, processor and
\* recorded model, at full precision; a call on a core that holds no model,
\* and a call that follows another call, changes nothing.
C23_FreeMemoryIdempotent ==
    [][FreeEndpoint =>
          /\ Freed'
          /\ (model = NoInstance \/ frees >= 1) =>
                UNCHANGED <<model, processor, current_model,
                            current_attention_type, current_quantize_llm,
                            current_lora_path>>]_vars

C23_Witness ==
    /\ frees = 2
    /\ Freed
    /\ current_attention_type # None

(***************************************************************************)
(* Further properties of the text functions.                               *)
(***************************************************************************)
\* symbols i .. j of t spell "[pause]" or "[pause:<digits>]"
WellFormedMarker(t, i, j) ==
    /\ i < j
    /\ t[i] = "[pause"
    /\ t[j] = "]"
    /\ j > i + 1 =>
          /\ t[i + 1] = ":"
          /\ j > i + 2
          /\ \A k \in i + 2 .. j - 1 : t[k] \in {"0", "5"}

WellFormedMarkers(t) ==
    {m \in (1 .. Len(t)) \X (1 .. Len(t)) : WellFormedMarker(t, m[1], m[2])}

IsPauseSegment(u) == u.type = "pause"

\* C24: _parse_pause_keywords returns one pause segment for each well-formed
\* marker of the text and none for any other bracketed text; a text without
\* well-formed marker comes back as one text segment that holds it verbatim.
C24_MalformedMarkersAreText ==
    tpc = "returned" =>
        /\ Len(SelectSeq(segments, IsPauseSegment))
              = Cardinality(WellFormedMarkers(text))
        /\ WellFormedMarkers(text) = {} =>
              /\ Len(segments) = 1
              /\ segments[1].type = "text"
              /\ segments[1].text \in {text, strip(text)}

C24_Witness ==
    /\ tpc = "returned"
    /\ text = <<"a", "[pause", ":", "-", "5">>
    /\ segments = <<TextUnit(text)>>

(***************************************************************************)
(* Properties of the audio encoding.                                       *)
(***************************************************************************)
\* C25: in every conversion to 16-bit PCM the scaled samples lie in
\* [-32767, 32767] before the cast, whatever the magnitudes of the input,
\* so the cast changes no value and every output sample lies in that range.
C25_PcmSamplesInRange ==
    \A c \in 1 .. Len(conversions) :
        /\ conversions[c].int16 = conversions[c].scaled
        /\ \A i \in 1 .. Len(conversions[c].int16) :
              /\ conversions[c].int16[i] >= 0 - Int16Scale
              /\ conversions[c].int16[i] <= Int16Scale

C25_Witness ==
    /\ Len(conversions) >= 1
    /\ Peak(audio_chunks[1]) > SampleUnit
    /\ \E i \in 1 .. Len(conversions[1].int16) :
          conversions[1].int16[i] = Int16Scale

\* C28: the byte chunks of the streaming path, concatenated, are the bytes
\* audio_to_bytes gives for the concatenated audio.
C28_PcmConcatenation ==
    (encoded = Len(audio_chunks) /\ whole_bytes # <<>>) =>
        Concat(stream_bytes) = whole_bytes

(***************************************************************************)
(* Further properties of TTSService.generate_speech.                       *)
(***************************************************************************)
\* C26: a request with inference_steps = None runs with the configured
\* default number of diffusion steps: its batch engine call starts with it,
\* and every chunk of its stream is computed with it.
C26_NoneStepsMeansDefault ==
    \A r \in ApiRequests :
        areq[r].inference_steps = <<>> =>
            /\ apc[r] \in {"batch", "returned"} =>
                  engineArgs[r][1] = DefaultSteps
            /\ \A i \in 1 .. Len(yielded[r]) :
                  yielded[r][i].steps = DefaultSteps

\* C27: when the generation thread of a stream starts the engine, the
\* diffusion steps and the generator state in effect are the ones the
\* generate_speech call of that request left.
C27_StreamRunsWithOwnSeedAndSteps ==
    [][\A r \in ApiRequests :
          (worker[r] = "none" /\ worker'[r] = "running") =>
              <<ddpm_steps, seed_rng>> = atCall[r]]_vars

(***************************************************************************)
(* Properties of the demo client's SSE handler.                            *)
(***************************************************************************)
\* the audio bytes of the chunk events among the first n events, in order
RECURSIVE AudioOf(_, _)
AudioOf(evs, n) ==
    IF n = 0 THEN <<>>
    ELSE IF evs[n].kind = "chunk"
    THEN Append(AudioOf(evs, n - 1), evs[n].audio[1].base64)
    ELSE AudioOf(evs, n - 1)

\* C29: the demo client accepts the server's stream: the file holds the
\* decoded audio of every chunk event the client has read, in order, and a
\* client that has read the server's error event has raised a stream error.
C29_ClientAcceptsServerStream ==
    /\ out_file = AudioOf(events, client_pos)
    /\ (\E i \in 1 .. client_pos : events[i] = ErrorEvent) =>
          cpc = "stream error"

(***************************************************************************)
(* Properties of the request validation of /tts/single.                    *)
(***************************************************************************)
\* C30: a /tts/single request whose text is empty or only whitespace is
\* answered with status 400, and the step that answers it loads no model
\* and makes no engine call.
C30_BlankTextIsBadRequest ==
    [][\A r \in SingleRequests :
          (StartRequest("h1", r) /\ IsBlank(r.script)) =>
              /\ status'["h1"] = BadRequest
              /\ pc'["h1"] = "error"
              /\ UNCHANGED <<handleVars, nextId, engine_calls>>]_vars

====
